---- MODULE Spec2Model ----
(***************************************************************************)
(* artyom/assetfs: the generator (src/assetfs.go: generateMain,            *)
(* writeSection, tree.walkFunc, tree.writeMetadata) and the generated      *)
(* runtime (the `head` template: AssetDir, _assetfs.Open, _assetFile).     *)
(*                                                                         *)
(* Strings are sequences of one-character strings, so that the path        *)
(* functions (Clean, Join, Dir, Base, TrimPrefix) work on characters as    *)
(* the Go code does.  Identities are 0-based as in Go; At(s, i) reads the  *)
(* i-th element of a Go slice held in a 1-based TLA+ sequence.             *)
(***************************************************************************)
EXTENDS Integers, Sequences, FiniteSets, TLC

VARIABLES
    pc,        \* generateMain's position: "start", "sections", "done", "failed"
    args,      \* flag.Args(): the asset directories given on the command line
    argi,      \* index of the next directory of the `for _, dir := range dirs` loop
    dest,      \* the destination file `filename` on disk
    tmp,       \* the temporary file: <<>> when absent, else <<its sections>>
    cur,       \* the directory tree the current writeSection call walks
    tr,        \* the *tree of the current writeSection call
    genErr,    \* the error generateMain returned
    registry,  \* _assetFilesystems of the generated program
    handles,   \* the *_assetFile values the hosting program holds
    listed,    \* per open file, the Readdir batches the hosting program has received, concatenated
    ret        \* what the last runtime call returned

vars == <<pc, args, argi, dest, tmp, cur, tr, genErr, registry, handles, listed, ret>>
genVars == <<pc, args, argi, dest, tmp, cur, tr, genErr>>
runVars == <<registry, handles, listed, ret>>

(***************************************************************************)
(* Bounds of the model                                                     *)
(***************************************************************************)
MaxCount == 2    \* largest count passed to Readdir
MaxBuf == 2      \* largest len(p) passed to Read
MaxOff == 1      \* largest |offset| passed to Seek, and cap of the offset past the end

(***************************************************************************)
(* Program constants                                                       *)
(***************************************************************************)
maxFileSize == 10485760
NsPerSec == 1000000000

(***************************************************************************)
(* Strings                                                                 *)
(***************************************************************************)
Slash == <<"/">>
Dot == <<".">>
DotDot == <<".", ".">>
static == <<"s", "t", "a", "t", "i", "c">>
red == <<"r", "e", "d">>
green == <<"g", "r", "e", "e", "n">>
sub == <<"s", "u", "b">>
aSlashB == <<"a", "/", "b">>
dotSlashStatic == <<".", "/">> \o static
notARealPath == <<"n", "o", "t", "/", "a", "/", "r", "e", "a", "l", "/", "p", "a", "t", "h">>
other == <<"o", "t", "h", "e", "r">>
abc == <<"a", "b", "c">>
cde == <<"c", "d", "e">>

Alphabet == <<".", "/", "a", "b", "c", "d", "e", "g", "h", "i", "l", "n", "o", "p", "r", "s", "t", "u">>
Ord(c) == CHOOSE i \in 1..Len(Alphabet) : Alphabet[i] = c

\* Go's string comparison s < t (bytewise), used by sort.Strings in readDirNames
RECURSIVE StrLess(_, _)
StrLess(s, t) ==
    IF t = <<>> THEN FALSE
    ELSE IF s = <<>> THEN TRUE
    ELSE IF Head(s) = Head(t) THEN StrLess(Tail(s), Tail(t))
    ELSE Ord(Head(s)) < Ord(Head(t))

RECURSIVE SortStrings(_)
SortStrings(S) ==
    IF S = {} THEN <<>>
    ELSE LET m == CHOOSE x \in S : \A y \in S \ {x} : StrLess(x, y)
         IN <<m>> \o SortStrings(S \ {m})

HasPrefix(s, p) == Len(s) >= Len(p) /\ SubSeq(s, 1, Len(p)) = p

TrimPrefix(s, p) == IF HasPrefix(s, p) THEN SubSeq(s, Len(p) + 1, Len(s)) ELSE s

\* the segments of s between its slashes (empty segments kept)
RECURSIVE Split(_)
Split(s) ==
    IF s = <<>> THEN << <<>> >>
    ELSE LET rest == Split(Tail(s))
         IN IF Head(s) = "/" THEN << <<>> >> \o rest
            ELSE << <<Head(s)>> \o Head(rest) >> \o Tail(rest)

RECURSIVE JoinSegs(_)
JoinSegs(segs) ==
    IF segs = <<>> THEN <<>>
    ELSE IF Len(segs) = 1 THEN segs[1]
    ELSE segs[1] \o Slash \o JoinSegs(Tail(segs))

RECURSIVE CleanSegs(_, _, _)
CleanSegs(segs, out, rooted) ==
    IF segs = <<>> THEN out
    ELSE LET s == Head(segs)
             out1 == IF s = <<>> \/ s = Dot THEN out
                     ELSE IF s = DotDot
                          THEN IF out # <<>> /\ out[Len(out)] # DotDot
                               THEN SubSeq(out, 1, Len(out) - 1)
                               ELSE IF rooted THEN out ELSE Append(out, s)
                          ELSE Append(out, s)
         IN CleanSegs(Tail(segs), out1, rooted)

\* path.Clean and (on Unix) filepath.Clean
Clean(p) ==
    IF p = <<>> THEN Dot
    ELSE LET rooted == p[1] = "/"
             body == JoinSegs(CleanSegs(Split(p), <<>>, rooted))
         IN IF rooted THEN Slash \o body
            ELSE IF body = <<>> THEN Dot ELSE body

\* filepath.Join of two non-empty elements
Join(dir, name) == Clean(dir \o Slash \o name)

LastSlash(p) ==
    IF \E i \in 1..Len(p) : p[i] = "/"
    THEN CHOOSE i \in 1..Len(p) : p[i] = "/" /\ \A j \in (i + 1)..Len(p) : p[j] # "/"
    ELSE 0

\* filepath.Dir
Dir(p) == Clean(SubSeq(p, 1, LastSlash(p)))

RECURSIVE StripSlashes(_)
StripSlashes(p) ==
    IF p # <<>> /\ p[Len(p)] = "/" THEN StripSlashes(SubSeq(p, 1, Len(p) - 1)) ELSE p

\* filepath.Base: the Name() of the os.FileInfo that os.Lstat(p) returns
Base(p) ==
    IF p = <<>> THEN Dot
    ELSE LET q == StripSlashes(p)
         IN IF q = <<>> THEN Slash ELSE SubSeq(q, LastSlash(q) + 1, Len(q))

At(s, i) == s[i + 1]

(***************************************************************************)
(* The file system the generator reads.  A directory tree is a function   *)
(* from relative paths (sequences of names below the root; <<>> is the     *)
(* root itself) to what os.Lstat and ioutil.ReadFile give for that entry.  *)
(* size is what Lstat reports and data what ReadFile returns: the code     *)
(* reads them independently (lines 233 and 242).  A tree with an empty     *)
(* domain is a root path that does not exist.                              *)
(***************************************************************************)
\* errors: kind is the underlying error, op and path what wraps or names it
NoErr == [kind |-> "nil", op |-> "", path |-> <<>>]
SizeErr(path) == [kind |-> "size exceeds max allowed size", op |-> "file", path |-> path]
IOErr(path) == [kind |-> "io", op |-> "", path |-> path]

Time(sec, nsec) == [sec |-> sec, nsec |-> nsec]

FileNode(data, size, mtime) ==
    [isDir |-> FALSE, size |-> size, perm |-> 420, mtime |-> mtime, data |-> data]

DirNode(mtime) ==
    [isDir |-> TRUE, size |-> 4096, perm |-> 493, mtime |-> mtime, data |-> <<>>]

Sizes(data) == {Len(data), maxFileSize, maxFileSize + 1}

NoEntries == [p \in {} |-> 0]

GreenOpts == {NoEntries, <<green>> :> FileNode(cde, Len(cde), Time(1, 5))}

RedOpts ==
    {NoEntries} \cup {<<red>> :> FileNode(abc, sz, Time(-1, 999999999)) : sz \in Sizes(abc)}

SubOpts ==
    {NoEntries, <<sub>> :> DirNode(Time(0, 1))}
    \cup {(<<sub>> :> DirNode(Time(0, 1))) @@ (<<sub, red>> :> FileNode(cde, sz, Time(1, 0)))
            : sz \in Sizes(cde)}

DirTrees ==
    {(<<>> :> DirNode(Time(0, 0))) @@ g @@ r @@ s : g \in GreenOpts, r \in RedOpts, s \in SubOpts}

FileTrees == {<<>> :> FileNode(abc, sz, Time(0, 7)) : sz \in Sizes(abc)}

Trees == DirTrees \cup FileTrees \cup {NoEntries}

\* the asset directories a command line may name
RootArgs == {static, aSlashB, Dot, Slash, dotSlashStatic}
ArgLists ==
    {<<r>> : r \in RootArgs} \cup {<<static, Dot>>, <<aSlashB, static>>, <<Slash, dotSlashStatic>>}

\* the one system call that fails during a walk, if any
NoFault == [at |-> <<>>, op |-> "none"]
Fault(rel, op) == [at |-> rel, op |-> op]
Faults(tree) ==
    {NoFault}
    \cup {Fault(p, "lstat") : p \in DOMAIN tree}
    \cup {Fault(p, "readdir") : p \in {q \in DOMAIN tree : tree[q].isDir}}
    \cup {Fault(p, "readfile") : p \in {q \in DOMAIN tree : ~tree[q].isDir}}

\* os.FileInfo of an entry, as os.Lstat(path) returns it
NoInfo == [name |-> <<>>, size |-> 0, perm |-> 0, modTime |-> Time(0, 0), isDir |-> FALSE]
Lstat(tree, rel, path) ==
    [name |-> Base(path), size |-> tree[rel].size, perm |-> tree[rel].perm,
     modTime |-> tree[rel].mtime, isDir |-> tree[rel].isDir]

\* readDirNames: the names in a directory, sorted
ChildRels(tree, rel) ==
    {q \in DOMAIN tree : Len(q) = Len(rel) + 1 /\ SubSeq(q, 1, Len(rel)) = rel}
ChildNames(tree, rel) == SortStrings({q[Len(q)] : q \in ChildRels(tree, rel)})

(***************************************************************************)
(* tree.walkFunc (src/assetfs.go:220-249).  data and readFails are what    *)
(* ioutil.ReadFile(path) would return.                                     *)
(***************************************************************************)
NewTree(root) ==
    [root |-> root, filesMeta |-> <<>>, dirMeta |-> <<>>, names |-> NoEntries,
     dirData |-> NoEntries, data |-> <<>>, err |-> NoErr]

NoTree == NewTree(<<>>)

\* walkFunc with the size test written >= instead of >
walkFunc_SizeGE(t, path, info, err, data, readFails) ==
    IF err # NoErr THEN [t EXCEPT !.err = err]
    ELSE IF info.isDir THEN
        LET idx == Len(t.dirMeta)
            t1 == [t EXCEPT !.dirMeta = Append(@, info),
                            !.names = (path :> idx) @@ @,
                            !.dirData = (path :> [files |-> <<>>, subdirs |-> <<>>]) @@ @]
            parent == Dir(path)
        IN IF parent \in DOMAIN t1.dirData
           THEN [t1 EXCEPT !.dirData[parent].subdirs = Append(@, idx)]
           ELSE t1
    ELSE IF info.size >= maxFileSize THEN [t EXCEPT !.err = SizeErr(path)]
    ELSE
        LET idx == Len(t.filesMeta)
            t1 == [t EXCEPT !.filesMeta = Append(@, info),
                            !.names = (path :> idx) @@ @]
            parent == Dir(path)
            t2 == IF parent \in DOMAIN t1.dirData
                  THEN [t1 EXCEPT !.dirData[parent].files = Append(@, idx)]
                  ELSE t1
        IN IF readFails THEN [t2 EXCEPT !.err = IOErr(path)]
           ELSE [t2 EXCEPT !.data = Append(@, data)]

walkFunc(t, path, info, err, data, readFails) ==
    IF err # NoErr THEN [t EXCEPT !.err = err]
    ELSE IF info.isDir THEN
        LET idx == Len(t.dirMeta)
            t1 == [t EXCEPT !.dirMeta = Append(@, info),
                            !.names = (path :> idx) @@ @,
                            !.dirData = (path :> [files |-> <<>>, subdirs |-> <<>>]) @@ @]
            parent == Dir(path)
        IN IF parent \in DOMAIN t1.dirData
           THEN [t1 EXCEPT !.dirData[parent].subdirs = Append(@, idx)]
           ELSE t1
    ELSE IF info.size > maxFileSize THEN [t EXCEPT !.err = SizeErr(path)]
    ELSE
        LET idx == Len(t.filesMeta)
            t1 == [t EXCEPT !.filesMeta = Append(@, info),
                            !.names = (path :> idx) @@ @]
            parent == Dir(path)
            t2 == IF parent \in DOMAIN t1.dirData
                  THEN [t1 EXCEPT !.dirData[parent].files = Append(@, idx)]
                  ELSE t1
        IN IF readFails THEN [t2 EXCEPT !.err = IOErr(path)]
           ELSE [t2 EXCEPT !.data = Append(@, data)]

(***************************************************************************)
(* filepath.Walk(tr.root, tr.walkFunc) (src/assetfs.go:133): Lstat of the  *)
(* root, then depth first, each directory's names in sorted order, every   *)
(* path built with filepath.Join; the first error ends the walk.           *)
(***************************************************************************)
RECURSIVE walk(_, _, _, _, _)
RECURSIVE walkNames(_, _, _, _, _, _)
walk(t, tree, fault, rel, path) ==
    LET info == Lstat(tree, rel, path)
    IN IF ~info.isDir
       THEN walkFunc(t, path, info, NoErr, tree[rel].data, fault = Fault(rel, "readfile"))
       ELSE LET err == IF fault = Fault(rel, "readdir") THEN IOErr(path) ELSE NoErr
                t1 == walkFunc(t, path, info, err, <<>>, FALSE)
            IN IF err # NoErr \/ t1.err # NoErr THEN t1
               ELSE walkNames(t1, tree, fault, rel, path, ChildNames(tree, rel))

walkNames(t, tree, fault, rel, path, names) ==
    IF names = <<>> THEN t
    ELSE LET filename == Join(path, Head(names))
             crel == Append(rel, Head(names))
         IN IF fault = Fault(crel, "lstat")
            THEN walkFunc(t, filename, NoInfo, IOErr(filename), <<>>, FALSE)
            ELSE LET t1 == walk(t, tree, fault, crel, filename)
                 IN IF t1.err # NoErr THEN t1
                    ELSE walkNames(t1, tree, fault, rel, path, Tail(names))

Walk(root, tree, fault) ==
    IF <<>> \notin DOMAIN tree \/ fault = Fault(<<>>, "lstat")
    THEN walkFunc(NewTree(root), root, NoInfo, IOErr(root), <<>>, FALSE)
    ELSE walk(NewTree(root), tree, fault, <<>>, root)

\* the path filepath.Walk hands to walkFunc for the entry at rel
RECURSIVE WalkPath(_, _)
WalkPath(root, rel) ==
    IF rel = <<>> THEN root
    ELSE Join(WalkPath(root, SubSeq(rel, 1, Len(rel) - 1)), rel[Len(rel)])

(***************************************************************************)
(* tree.writeMetadata (src/assetfs.go:154-209) and the _assetfs literal    *)
(* it emits                                                                *)
(***************************************************************************)
rootedName(name, root) ==
    LET n == TrimPrefix(name, root)
    IN IF n = <<>> THEN Slash ELSE n

\* fi.ModTime().UnixNano()
UnixNano(t) == t.sec * NsPerSec + t.nsec

\* time.Unix(0, nsec), the body of _itemMetadata.ModTime
TimeUnix(ns) == Time(ns \div NsPerSec, ns % NsPerSec)

RECURSIVE ShiftAll(_, _)
ShiftAll(s, shift) == IF s = <<>> THEN <<>> ELSE <<Head(s) + shift>> \o ShiftAll(Tail(s), shift)

\* the loop of lines 166-172 without the shift of the directory indexes
indexesOf_NoShift(t) ==
    LET norms == {rootedName(n, t.root) : n \in DOMAIN t.names}
    IN [k \in norms |->
            LET n == CHOOSE m \in DOMAIN t.names : rootedName(m, t.root) = k
            IN t.names[n]]

\* the loop of lines 166-172; two names that normalise alike overwrite each other
indexesOf(t) ==
    LET shift == Len(t.filesMeta)
        norms == {rootedName(n, t.root) : n \in DOMAIN t.names}
    IN [k \in norms |->
            LET n == CHOOSE m \in DOMAIN t.names : rootedName(m, t.root) = k
            IN IF n \in DOMAIN t.dirData THEN t.names[n] + shift ELSE t.names[n]]

\* the loop of lines 174-181
subdirOf(t) ==
    LET shift == Len(t.filesMeta)
        norms == {rootedName(n, t.root) : n \in DOMAIN t.dirData}
    IN [k \in norms |->
            LET n == CHOOSE m \in DOMAIN t.dirData : rootedName(m, t.root) = k
            IN t.dirData[n].files \o ShiftAll(t.dirData[n].subdirs, shift)]

\* idx2name[i], "" when no name has index i
idx2name(indexes, i) ==
    IF \E k \in DOMAIN indexes : indexes[k] = i
    THEN CHOOSE k \in DOMAIN indexes : indexes[k] = i
    ELSE <<>>

metaOf(fi, children) ==
    [name |-> fi.name, size |-> IF fi.isDir THEN 0 ELSE fi.size,
     mode |-> [dir |-> fi.isDir, perm |-> fi.perm], mtime |-> UnixNano(fi.modTime),
     isDir |-> fi.isDir, children |-> IF fi.isDir THEN children ELSE <<>>]

writeMetadata(t) ==
    LET info == t.filesMeta \o t.dirMeta
        indexes == indexesOf(t)
        subdir == subdirOf(t)
        childrenOf(i) ==
            IF idx2name(indexes, i) \in DOMAIN subdir THEN subdir[idx2name(indexes, i)] ELSE <<>>
        n == Cardinality(DOMAIN indexes)
    IN [data |-> t.data,
        meta |-> [i \in 1..Len(info) |-> metaOf(info[i], childrenOf(i - 1))],
        names |-> [k \in {idx2name(indexes, i) : i \in 0..(n - 1)} |->
                      CHOOSE i \in 0..(n - 1) : idx2name(indexes, i) = k]]

(***************************************************************************)
(* generateMain (src/assetfs.go:92-123)                                    *)
(***************************************************************************)
Absent == [state |-> "absent", sections |-> <<>>]
Old == [state |-> "old", sections |-> <<>>]
Written(sections) == [state |-> "new", sections |-> sections]

NoCur == [root |-> <<>>, tree |-> NoEntries, fault |-> NoFault]
RetOf(op, h, dir, name, out, n, err) ==
    [op |-> op, h |-> h, dir |-> dir, name |-> name, out |-> out, n |-> n, err |-> err]
NoRet == RetOf("none", 0, <<>>, <<>>, <<>>, 0, NoErr)
Handles == {1, 2}
NoFile == <<>>

InitGen ==
    /\ pc = "start"
    /\ args \in ArgLists
    /\ argi = 1
    /\ dest \in {Absent, Old}
    /\ tmp = <<>>
    /\ cur = NoCur
    /\ tr = NoTree
    /\ genErr = NoErr
    /\ registry = NoEntries
    /\ handles = [h \in Handles |-> NoFile]
    /\ listed = [h \in Handles |-> <<>>]
    /\ ret = NoRet

\* every return of generateMain runs the deferred os.Remove(outfile.Name())
Fail(err) ==
    /\ pc' = "failed"
    /\ genErr' = err
    /\ tmp' = <<>>

\* ioutil.TempFile, writeHeader and the head template (lines 96-105)
TempFile ==
    /\ pc = "start"
    /\ \/ /\ Fail(IOErr(<<>>))
          /\ UNCHANGED <<args, argi, dest, cur, tr>>
       \/ /\ pc' = "sections"
          /\ tmp' = << <<>> >>
          /\ UNCHANGED <<args, argi, dest, cur, tr, genErr>>
    /\ UNCHANGED runVars

\* one turn of the loop of lines 106-111: writeSection (lines 125-138)
writeSection(dir, tree, fault) ==
    LET t == Walk(dir, tree, fault)
    IN /\ cur' = [root |-> dir, tree |-> tree, fault |-> fault]
       /\ tr' = t
       /\ IF t.err # NoErr
          THEN /\ Fail(t.err)
               /\ UNCHANGED argi
          ELSE /\ tmp' = <<Append(tmp[1], [key |-> dir, fs |-> writeMetadata(t)])>>
               /\ argi' = argi + 1
               /\ UNCHANGED <<pc, genErr>>

WriteSection ==
    /\ pc = "sections"
    /\ argi <= Len(args)
    /\ \E tree \in Trees : \E fault \in Faults(tree) :
          writeSection(Clean(args[argi]), tree, fault)
    /\ UNCHANGED <<args, dest>>
    /\ UNCHANGED runVars

\* lines 112-122: writeTail, writer.Err, Close, Chmod, Rename
Finish ==
    /\ pc = "sections"
    /\ argi > Len(args)
    /\ \/ /\ \E step \in {"write", "close", "chmod", "rename"} : Fail(IOErr(<<>>))
          /\ UNCHANGED dest
       \/ /\ pc' = "done"
          /\ dest' = Written(tmp[1])
          /\ tmp' = <<>>
          /\ UNCHANGED genErr
    /\ UNCHANGED <<args, argi, cur, tr>>
    /\ UNCHANGED runVars

NextGen == TempFile \/ WriteSection \/ Finish

SpecGen == InitGen /\ [][NextGen]_vars

(***************************************************************************)
(* The generated program (the head template, src/assetfs.go:301-402, the   *)
(* same text as src/internal/template.go:15-116)                           *)
(***************************************************************************)
ErrNotExist == [kind |-> "ErrNotExist", op |-> "", path |-> <<>>]
PathError(op, path, err) == [kind |-> err.kind, op |-> op, path |-> path]
ErrInvalid == [kind |-> "ErrInvalid", op |-> "", path |-> <<>>]
errIsDirectory == [kind |-> "is directory", op |-> "", path |-> <<>>]
EOF == [kind |-> "EOF", op |-> "", path |-> <<>>]
ErrWhence == [kind |-> "bytes.Reader.Seek: invalid whence", op |-> "", path |-> <<>>]
ErrNegative == [kind |-> "bytes.Reader.Seek: negative position", op |-> "", path |-> <<>>]
Panic == [kind |-> "panic", op |-> "", path |-> <<>>]

\* os.IsNotExist: looks through *os.PathError
IsNotExist(err) == err.kind = "ErrNotExist"

\* var _assetFilesystems, as the emitted sections initialise it
RegistryOf(sections) ==
    [k \in {sections[i].key : i \in 1..Len(sections)} |->
        (CHOOSE i \in 1..Len(sections) : sections[i].key = k /\
            \A j \in (i + 1)..Len(sections) : sections[j].key # k)]

SectionFs(sections, k) == sections[RegistryOf(sections)[k]].fs

\* AssetDir: <<>> is the nil *_assetfs
AssetDir(name) == IF name \in DOMAIN registry THEN <<registry[name]>> ELSE <<>>

\* Open without the test for a nil receiver
Open_NilDeref(fs, name) ==
    IF fs = <<>> THEN [af |-> NoFile, err |-> Panic]
    ELSE LET clean == Clean(Slash \o name)
         IN IF clean \notin DOMAIN fs[1].names THEN [af |-> NoFile, err |-> ErrNotExist]
            ELSE LET i == fs[1].names[clean]
                     fi == At(fs[1].meta, i)
                 IN [af |-> <<[fi |-> fi, fs |-> fs[1],
                              rd |-> IF fi.isDir THEN <<>>
                                     ELSE <<[s |-> At(fs[1].data, i), i |-> 0]>>,
                              read |-> 0]>>,
                     err |-> NoErr]

\* _assetfs.Open
Open(fs, name) ==
    IF fs = <<>> THEN [af |-> NoFile, err |-> PathError("open", name, ErrNotExist)]
    ELSE LET clean == Clean(Slash \o name)
         IN IF clean \notin DOMAIN fs[1].names THEN [af |-> NoFile, err |-> ErrNotExist]
            ELSE LET i == fs[1].names[clean]
                 IN IF i >= Len(fs[1].meta) \/ (~At(fs[1].meta, i).isDir /\ i >= Len(fs[1].data))
                    THEN [af |-> NoFile, err |-> Panic]
                    ELSE LET fi == At(fs[1].meta, i)
                         IN [af |-> <<[fi |-> fi, fs |-> fs[1],
                                      rd |-> IF fi.isDir THEN <<>>
                                             ELSE <<[s |-> At(fs[1].data, i), i |-> 0]>>,
                                      read |-> 0]>>,
                             err |-> NoErr]

\* _itemMetadata's methods, as os.FileInfo shows them
FileInfo(m) ==
    [name |-> m.name, size |-> m.size, mode |-> m.mode, modTime |-> TimeUnix(m.mtime),
     isDir |-> m.isDir]

Min(a, b) == IF a < b THEN a ELSE b

\* Readdir answering the end of a bounded listing like the unbounded one: nil, nil
Readdir_EmptyAtEnd(af, count) ==
    IF ~af.fi.isDir THEN [af |-> af, out |-> <<>>, err |-> ErrInvalid]
    ELSE LET len == Len(af.fi.children)
             entry(k) == FileInfo(At(af.fs.meta, At(af.fi.children, k)))
         IN IF af.read >= len THEN [af |-> af, out |-> <<>>, err |-> NoErr]
            ELSE LET m == IF count <= 0 THEN len - af.read ELSE Min(count, len - af.read)
                     out == [k \in 1..m |-> entry(af.read + k - 1)]
                 IN [af |-> [af EXCEPT !.read = @ + Len(out)], out |-> out, err |-> NoErr]

\* Readdir answering the end of an unbounded listing like the bounded one: io.EOF
Readdir_EofAtEnd(af, count) ==
    IF ~af.fi.isDir THEN [af |-> af, out |-> <<>>, err |-> ErrInvalid]
    ELSE LET len == Len(af.fi.children)
             entry(k) == FileInfo(At(af.fs.meta, At(af.fi.children, k)))
         IN IF af.read >= len THEN [af |-> af, out |-> <<>>, err |-> EOF]
            ELSE LET m == IF count <= 0 THEN len - af.read ELSE Min(count, len - af.read)
                     out == [k \in 1..m |-> entry(af.read + k - 1)]
                 IN [af |-> [af EXCEPT !.read = @ + Len(out)], out |-> out, err |-> NoErr]

\* _assetFile.Readdir
Readdir(af, count) ==
    IF ~af.fi.isDir THEN [af |-> af, out |-> <<>>, err |-> ErrInvalid]
    ELSE LET len == Len(af.fi.children)
             entry(k) == FileInfo(At(af.fs.meta, At(af.fi.children, k)))
         IN IF count <= 0
            THEN IF af.read >= len THEN [af |-> af, out |-> <<>>, err |-> NoErr]
                 ELSE LET out == [k \in 1..(len - af.read) |-> entry(af.read + k - 1)]
                      IN [af |-> [af EXCEPT !.read = @ + Len(out)], out |-> out, err |-> NoErr]
            ELSE IF af.read >= len THEN [af |-> af, out |-> <<>>, err |-> EOF]
                 ELSE LET out == [k \in 1..Min(count, len - af.read) |-> entry(af.read + k - 1)]
                      IN [af |-> [af EXCEPT !.read = @ + Len(out)], out |-> out, err |-> NoErr]

\* bytes.Reader.Seek
ReaderSeek(rd, offset, whence) ==
    LET abs == IF whence = 0 THEN offset
               ELSE IF whence = 1 THEN rd.i + offset
               ELSE Len(rd.s) + offset
    IN IF whence \notin {0, 1, 2} THEN [rd |-> rd, n |-> 0, err |-> ErrWhence]
       ELSE IF abs < 0 THEN [rd |-> rd, n |-> 0, err |-> ErrNegative]
       ELSE [rd |-> [rd EXCEPT !.i = abs], n |-> abs, err |-> NoErr]

\* bytes.Reader.Read into a buffer of len(p) = n bytes
ReaderRead(rd, n) ==
    IF rd.i >= Len(rd.s) THEN [rd |-> rd, out |-> <<>>, err |-> EOF]
    ELSE LET k == Min(n, Len(rd.s) - rd.i)
         IN [rd |-> [rd EXCEPT !.i = @ + k], out |-> SubSeq(rd.s, rd.i + 1, rd.i + k),
             err |-> NoErr]

\* Seek without the directory test: af.rd is nil for a directory
Seek_NoDirCheck(af, offset, whence) ==
    IF af.fi.isDir THEN [af |-> af, n |-> 0, err |-> Panic]
    ELSE LET r == ReaderSeek(af.rd[1], offset, whence)
         IN [af |-> [af EXCEPT !.rd = <<r.rd>>], n |-> r.n, err |-> r.err]

\* _assetFile.Seek
Seek(af, offset, whence) ==
    IF af.fi.isDir THEN [af |-> af, n |-> 0, err |-> errIsDirectory]
    ELSE LET r == ReaderSeek(af.rd[1], offset, whence)
         IN [af |-> [af EXCEPT !.rd = <<r.rd>>], n |-> r.n, err |-> r.err]

\* _assetFile.Read
Read(af, n) ==
    IF af.fi.isDir THEN [af |-> af, out |-> <<>>, err |-> errIsDirectory]
    ELSE LET r == ReaderRead(af.rd[1], n)
         IN [af |-> [af EXCEPT !.rd = <<r.rd>>], out |-> r.out, err |-> r.err]

\* _assetFile.Stat
Stat(af) == FileInfo(af.fi)

(***************************************************************************)
(* The hosting program: it holds up to two open files and calls the        *)
(* http.File methods on them in any order.                                 *)
(***************************************************************************)
\* names the hosting program asks AssetDir and Open for
DirNames == DOMAIN registry \cup {other}
OpenNames ==
    {Slash, red, sub, sub \o Slash \o red,
     Slash \o sub \o Slash \o DotDot \o Slash \o green, notARealPath}

\* the trees the generated program under test was built from
RunTrees ==
    {t \in DirTrees : /\ \A p \in DOMAIN t : ~t[p].isDir => t[p].size = Len(t[p].data)
                      /\ <<green>> \in DOMAIN t <=> <<red>> \in DOMAIN t
                      /\ <<sub>> \in DOMAIN t <=> <<sub, red>> \in DOMAIN t}
RunInputs == {[root |-> r, tree |-> t, fault |-> NoFault] : r \in {static, Dot}, t \in RunTrees}

Init ==
    \E in \in RunInputs :
        LET t == Walk(in.root, in.tree, NoFault)
            sections == <<[key |-> in.root, fs |-> writeMetadata(t)]>>
        IN /\ pc = "done"
           /\ args = <<in.root>>
           /\ argi = 2
           /\ dest = Written(sections)
           /\ tmp = <<>>
           /\ cur = in
           /\ tr = t
           /\ genErr = NoErr
           /\ registry = [k \in DOMAIN RegistryOf(sections) |-> SectionFs(sections, k)]
           /\ handles = [h \in Handles |-> NoFile]
           /\ listed = [h \in Handles |-> <<>>]
           /\ ret = NoRet

DoOpen(h, dir, name) ==
    LET r == Open(AssetDir(dir), name)
    IN /\ handles' = [handles EXCEPT ![h] = r.af]
       /\ listed' = [listed EXCEPT ![h] = <<>>]
       /\ ret' = RetOf("Open", h, dir, name, <<>>, 0, r.err)
       /\ UNCHANGED registry
    /\ UNCHANGED genVars

\* Readdir with the cursor kept per entry instead of per open file
DoReaddir_SharedCursor(h, count) ==
    /\ handles[h] # NoFile
    /\ LET r == Readdir(handles[h][1], count)
       IN /\ handles' = [g \in Handles |->
                            IF handles[g] # NoFile /\ handles[g][1].fi = handles[h][1].fi
                            THEN <<[handles[g][1] EXCEPT !.read = r.af.read]>>
                            ELSE handles[g]]
          /\ listed' = [listed EXCEPT ![h] = @ \o r.out]
          /\ ret' = RetOf("Readdir", h, <<>>, <<>>, r.out, count, r.err)
    /\ UNCHANGED registry
    /\ UNCHANGED genVars

DoReaddir(h, count) ==
    /\ handles[h] # NoFile
    /\ LET r == Readdir(handles[h][1], count)
       IN /\ handles' = [handles EXCEPT ![h] = <<r.af>>]
          /\ listed' = [listed EXCEPT ![h] = @ \o r.out]
          /\ ret' = RetOf("Readdir", h, <<>>, <<>>, r.out, count, r.err)
    /\ UNCHANGED registry
    /\ UNCHANGED genVars

DoSeek(h, offset, whence) ==
    /\ handles[h] # NoFile
    /\ LET r == Seek(handles[h][1], offset, whence)
       IN /\ r.af.rd # <<>> => r.n <= Len(r.af.rd[1].s) + MaxOff
          /\ handles' = [handles EXCEPT ![h] = <<r.af>>]
          /\ ret' = RetOf("Seek", h, <<>>, <<>>, <<>>, r.n, r.err)
    /\ UNCHANGED <<registry, listed>>
    /\ UNCHANGED genVars

DoRead(h, n) ==
    /\ handles[h] # NoFile
    /\ LET r == Read(handles[h][1], n)
       IN /\ handles' = [handles EXCEPT ![h] = <<r.af>>]
          /\ ret' = RetOf("Read", h, <<>>, <<>>, r.out, Len(r.out), r.err)
    /\ UNCHANGED <<registry, listed>>
    /\ UNCHANGED genVars

DoStat(h) ==
    /\ handles[h] # NoFile
    /\ ret' = RetOf("Stat", h, <<>>, <<>>, <<Stat(handles[h][1])>>, 0, NoErr)
    /\ UNCHANGED <<registry, handles, listed>>
    /\ UNCHANGED genVars

\* _assetFile.Close returns nil and touches nothing
DoClose(h) ==
    /\ handles[h] # NoFile
    /\ ret' = RetOf("Close", h, <<>>, <<>>, <<>>, 0, NoErr)
    /\ UNCHANGED <<registry, handles, listed>>
    /\ UNCHANGED genVars

Next ==
    \/ \E h \in Handles, dir \in DirNames, name \in OpenNames : DoOpen(h, dir, name)
    \/ \E h \in Handles, count \in -1..MaxCount : DoReaddir(h, count)
    \/ \E h \in Handles, offset \in (-MaxOff)..MaxOff, whence \in 0..3 : DoSeek(h, offset, whence)
    \/ \E h \in Handles, n \in 0..MaxBuf : DoRead(h, n)
    \/ \E h \in Handles : DoStat(h)
    \/ \E h \in Handles : DoClose(h)

Spec == Init /\ [][Next]_vars

(***************************************************************************)
(* Properties of the generated program, checked under Spec                 *)
(***************************************************************************)
\* the children list C of an open directory, as the entries Readdir returns for it
Listing(af) == [k \in 1..Len(af.fi.children) |-> FileInfo(At(af.fs.meta, af.fi.children[k]))]

IsDirHandle(h) == handles[h] # NoFile /\ handles[h][1].fi.isDir
IsFileHandle(h) == handles[h] # NoFile /\ ~handles[h][1].fi.isDir

\* the step is the call op on handle h
Called(op, h) == ret'.op = op /\ ret'.h = h

\* C1: on a directory handle every Readdir(k), k > 0, with the cursor before the end
\* returns, without error, the next min(k, remaining) entries of the children list C
\* and advances the cursor by that many; with the cursor at the end (at once when C
\* is empty) it returns no entries and io.EOF and moves nothing; so the batches a
\* caller has received are always the first `read` entries of C, and all of C once
\* io.EOF is returned.
C1_BoundedStep ==
    \A h \in Handles :
        (IsDirHandle(h) /\ Called("Readdir", h) /\ ret'.n > 0) =>
            LET af == handles[h][1]
                C == Listing(af)
            IN IF af.read >= Len(C)
               THEN /\ ret'.out = <<>>
                    /\ ret'.err = EOF
                    /\ handles'[h] = handles[h]
               ELSE /\ ret'.err = NoErr
                    /\ Len(ret'.out) = Min(ret'.n, Len(C) - af.read)
                    /\ ret'.out = SubSeq(C, af.read + 1, af.read + Len(ret'.out))
                    /\ handles'[h][1].read = af.read + Len(ret'.out)

C1_Received ==
    \A h \in Handles :
        IsDirHandle(h) =>
            LET af == handles[h][1]
                C == Listing(af)
            IN /\ af.read <= Len(C)
               /\ listed[h] = SubSeq(C, 1, af.read)
               /\ (ret.op = "Readdir" /\ ret.h = h /\ ret.err = EOF) => listed[h] = C

C1_BoundedReaddir == [][C1_BoundedStep]_vars /\ []C1_Received

C1_Witness ==
    \E h \in Handles :
        /\ IsDirHandle(h)
        /\ ret.op = "Readdir" /\ ret.h = h /\ ret.n = 1 /\ ret.err = EOF
        /\ Len(listed[h]) >= 3

\* C2: on a directory handle every Readdir(count <= 0) returns, with no error, all
\* children from the cursor to the end of C (all of C on a fresh handle, nothing once
\* the cursor is at the end) and leaves the cursor at len(C).
C2_UnboundedStep ==
    \A h \in Handles :
        (IsDirHandle(h) /\ Called("Readdir", h) /\ ret'.n <= 0) =>
            LET af == handles[h][1]
                C == Listing(af)
            IN /\ ret'.err = NoErr
               /\ ret'.out = SubSeq(C, af.read + 1, Len(C))
               /\ af.read = 0 => ret'.out = C
               /\ handles'[h][1].read = Len(C)
               /\ handles'[h][1].fi = af.fi

C2_UnboundedReaddir == [][C2_UnboundedStep]_vars

C2_Witness ==
    \E h \in Handles :
        /\ IsDirHandle(h)
        /\ ret.op = "Readdir" /\ ret.h = h /\ ret.n <= 0
        /\ ret.out = <<>> /\ ret.err = NoErr
        /\ Len(listed[h]) >= 2 /\ listed[h] = Listing(handles[h][1])

\* C8: Open fails with the not-found error (os.IsNotExist) and returns no handle, and
\* does not panic, both when the filesystem is nil (AssetDir of an unregistered name)
\* and when path.Clean("/"+name) is not a key of names.
C8_OpenStep ==
    \A h \in Handles :
        Called("Open", h) =>
            LET fs == AssetDir(ret'.dir)
                missing == fs = <<>> \/ Clean(Slash \o ret'.name) \notin DOMAIN fs[1].names
            IN /\ missing => /\ IsNotExist(ret'.err)
                             /\ handles'[h] = NoFile
               /\ ~missing => ret'.err = NoErr /\ handles'[h] # NoFile

C8_OpenNotFound == [][C8_OpenStep]_vars

C8_Witness ==
    /\ ret.op = "Open" /\ ret.name = notARealPath /\ ret.dir \in DOMAIN registry
    /\ IsNotExist(ret.err) /\ handles[ret.h] = NoFile

\* C9: a call on one handle changes only that handle (its cursor or read offset and
\* what its caller has received); the other handle and the shared index stay as they
\* were, also when both handles are open on the same entry.
C9_IsolatedStep ==
    \A h \in Handles :
        (ret'.h = h /\ ret'.op # "none") =>
            /\ \A g \in Handles \ {h} : handles'[g] = handles[g] /\ listed'[g] = listed[g]
            /\ registry' = registry
            /\ (ret'.op # "Open" /\ handles[h] # NoFile) =>
                  /\ handles'[h] # NoFile
                  /\ handles'[h][1].fi = handles[h][1].fi
                  /\ handles'[h][1].fs = handles[h][1].fs
            /\ ret'.op \in {"Stat", "Close"} => handles'[h] = handles[h]

C9_Indexed ==
    \A h \in Handles :
        handles[h] # NoFile => \E k \in DOMAIN registry : handles[h][1].fs = registry[k]

C9_HandlesIsolated == [][C9_IsolatedStep]_vars /\ []C9_Indexed

C9_Witness ==
    /\ IsDirHandle(1) /\ IsDirHandle(2)
    /\ handles[1][1].fi = handles[2][1].fi
    /\ handles[1][1].read = 1 /\ handles[2][1].read = 3
    /\ ret.op = "Readdir" /\ ret.h = 1

\* C10: on a directory handle Read and Seek return the is-directory error and leave
\* the handle as it was; on a file handle Readdir returns os.ErrInvalid and leaves
\* the handle as it was.
C10_WrongKindStep ==
    \A h \in Handles :
        /\ (IsDirHandle(h) /\ (Called("Read", h) \/ Called("Seek", h))) =>
              /\ ret'.err = errIsDirectory
              /\ ret'.out = <<>> /\ ret'.n = 0
              /\ handles'[h] = handles[h]
        /\ (IsFileHandle(h) /\ Called("Readdir", h)) =>
              /\ ret'.err = ErrInvalid
              /\ ret'.out = <<>>
              /\ handles'[h] = handles[h]

C10_WrongKind == [][C10_WrongKindStep]_vars

C10_Witness ==
    \E h \in Handles :
        /\ IsDirHandle(h) /\ handles[h][1].read = 1
        /\ ret.op = "Seek" /\ ret.h = h /\ ret.err = errIsDirectory

(***************************************************************************)
(* Properties of the generator, checked under SpecGen                      *)
(***************************************************************************)
\* the sections written so far (of the temporary file, or of the renamed output)
Emitted == IF pc = "sections" THEN tmp[1] ELSE IF pc = "done" THEN dest.sections ELSE <<>>

\* the last writeSection call returned nil: cur, tr and the last section belong together
BuiltOK == cur # NoCur /\ tr.err = NoErr /\ pc \in {"sections", "done"} /\ Emitted # <<>>

LastFs == Emitted[Len(Emitted)].fs

\* an entry's path relative to the root, prefixed with "/"
RootRelative(rel) == Slash \o JoinSegs(rel)

\* the identity the build gave the entry at rel
Identity(rel) ==
    LET p == WalkPath(cur.root, rel)
    IN IF cur.tree[rel].isDir THEN tr.names[p] + Len(tr.filesMeta) ELSE tr.names[p]

Oversized(tree) == {rel \in DOMAIN tree : ~tree[rel].isDir /\ tree[rel].size > maxFileSize}

\* C3: after a successful build every walked entry is a key of names under its
\* root-relative path prefixed with "/", Open of that path succeeds and Stat gives
\* the entry's own name, mode, modification time and directory flag, and for a file
\* its size.
C3_RoundTrip ==
    BuiltOK =>
        \A rel \in DOMAIN cur.tree :
            LET r == Open(<<LastFs>>, RootRelative(rel))
                info == Lstat(cur.tree, rel, WalkPath(cur.root, rel))
            IN /\ RootRelative(rel) \in DOMAIN LastFs.names
               /\ r.err = NoErr
               /\ Stat(r.af[1]).name = info.name
               /\ Stat(r.af[1]).isDir = info.isDir
               /\ Stat(r.af[1]).mode = [dir |-> info.isDir, perm |-> info.perm]
               /\ Stat(r.af[1]).modTime = info.modTime
               /\ ~info.isDir => Stat(r.af[1]).size = info.size

\* C4: after a successful build the children list of every directory holds exactly
\* the identities of the entries directly inside it, each once, and nothing else.
C4_ChildrenExact ==
    BuiltOK =>
        \A rel \in {q \in DOMAIN cur.tree : cur.tree[q].isDir} :
            LET ch == At(LastFs.meta, Identity(rel)).children
                kids == ChildRels(cur.tree, rel)
            IN /\ {ch[k] : k \in 1..Len(ch)} = {Identity(c) : c \in kids}
               /\ Len(ch) = Cardinality(kids)

RedGreenTree ==
    (<<>> :> DirNode(Time(0, 0)))
    @@ (<<green>> :> FileNode(cde, Len(cde), Time(1, 5)))
    @@ (<<red>> :> FileNode(abc, Len(abc), Time(-1, 999999999)))

ReadAll(fs, name) == Read(Open(<<fs>>, name).af[1], Len(abc)).out
ListNames(fs, name) ==
    LET out == Readdir(Open(<<fs>>, name).af[1], 0).out
    IN [k \in 1..Len(out) |-> out[k].name]

\* C5 as stated: a root holding only red ("abc") and green ("cde") builds red = 0,
\* green = 1, root = 2 with children [0,1], names {"/red":0, "/green":1, "/":2};
\* Open("/red") and Read give "abc"; the unbounded listing of "/" is red, green.
C5_Original ==
    (BuiltOK /\ cur.tree = RedGreenTree) =>
        /\ LastFs.names = (Slash \o red :> 0) @@ (Slash \o green :> 1) @@ (Slash :> 2)
        /\ At(LastFs.meta, 2).children = <<0, 1>>
        /\ ReadAll(LastFs, Slash \o red) = abc
        /\ ListNames(LastFs, Slash) = <<red, green>>

\* C5 amended: built from the root "static", the files are numbered in the walk's
\* lexical order, green = 0 and red = 1, root = 2 with children [0,1], names
\* {"/green":0, "/red":1, "/":2}; Open("/red") and Read give "abc"; the unbounded
\* listing of "/" is green, red.
C5_Amended ==
    (BuiltOK /\ cur.tree = RedGreenTree /\ cur.root = static) =>
        /\ LastFs.names = (Slash \o green :> 0) @@ (Slash \o red :> 1) @@ (Slash :> 2)
        /\ LastFs.data = <<cde, abc>>
        /\ At(LastFs.meta, 2).isDir
        /\ At(LastFs.meta, 2).children = <<0, 1>>
        /\ ReadAll(LastFs, Slash \o red) = abc
        /\ ListNames(LastFs, Slash) = <<green, red>>

C5_Witness == BuiltOK /\ cur.tree = RedGreenTree /\ cur.root = static /\ pc = "done"

\* C6: a root that does not exist or is not a directory makes the build fail with the
\* output file not written, and no emitted names map sends "/" to a non-directory.
C6_RootMustBeDirectory ==
    /\ (cur # NoCur /\ (<<>> \notin DOMAIN cur.tree \/ ~cur.tree[<<>>].isDir)) =>
          pc = "failed" /\ dest.state # "new"
    /\ \A i \in 1..Len(Emitted) :
          Slash \in DOMAIN Emitted[i].fs.names =>
              At(Emitted[i].fs.meta, Emitted[i].fs.names[Slash]).isDir

\* C7: a walk that meets a file larger than maxFileSize fails, with the error naming
\* that file's path when no system call failed first; whenever generateMain has not
\* returned nil the destination is as it was and after a failure the temporary file
\* is gone; a walk with no failing system call and no file over maxFileSize (files of
\* exactly maxFileSize included) succeeds and records every entry.
C7_SizeCeiling ==
    /\ (cur # NoCur /\ Oversized(cur.tree) # {}) =>
          /\ pc = "failed"
          /\ genErr # NoErr
          /\ cur.fault = NoFault =>
                \E f \in Oversized(cur.tree) : genErr = SizeErr(WalkPath(cur.root, f))
    /\ pc # "done" => dest \in {Absent, Old}
    /\ pc = "failed" => tmp = <<>>
    /\ (cur # NoCur /\ cur.fault = NoFault /\ <<>> \in DOMAIN cur.tree
            /\ Oversized(cur.tree) = {}) =>
          /\ tr.err = NoErr
          /\ \A rel \in DOMAIN cur.tree : WalkPath(cur.root, rel) \in DOMAIN tr.names

C7_Witness ==
    /\ pc = "failed" /\ argi = 2 /\ dest = Old
    /\ genErr.kind = SizeErr(<<>>).kind
    /\ \E f \in DOMAIN cur.tree :
          /\ cur.tree[f].size = maxFileSize
          /\ WalkPath(cur.root, f) \in DOMAIN tr.names

====
